---- MODULE Spec2Model ----
(***************************************************************************)
(* WorkflowBuddy, buddy/utils.py: the write-through cache over the JSON    *)
(* file (IN_MEMORY_WRITE_THROUGH_CACHE, PERSISTED_JSON_FILE), the db_*     *)
(* store operations and the event dispatcher generic_event_proxy.          *)
(*                                                                         *)
(* Python values are represented as follows.  A dict is a function with a  *)
(* finite domain of strings (a record).  A list is a sequence.  The items  *)
(* of the lists stored in the cache are either dicts (webhook configs) or  *)
(* strings (event types, under the unhandled-events key); so that the two  *)
(* can sit in one list, a string item s is written PyStr(s) = [str |-> s]. *)
(***************************************************************************)
EXTENDS Integers, Sequences, FiniteSets, TLC

VARIABLES
    cache,      \* IN_MEMORY_WRITE_THROUGH_CACHE: dict key -> list
    disk,       \* the contents of PERSISTED_JSON_FILE
    last,       \* the operation that has just run, with what it returned and
                \* sent; "idle" once it has returned to its caller
    chain,      \* history: the event type that was marked unhandled
                \* ("marked", via the operation that marked it), then got a
                \* webhook by the very next operation ("registered"), then
                \* was dispatched by the one after ("dispatched")
    threads     \* the threads that are inside a store operation, each with
                \* its position and its local variables; none when the
                \* operations are called one at a time

vars == <<cache, disk, last, chain, threads>>

-----------------------------------------------------------------------------
(* Bounds of the model *)

\* the list under the unhandled-events key grows no longer than this
MaxUnhandled == 2

\* the passes of the loop of sample_list_until_no_bots_are_found are counted
\* up to this
MaxIterations == 16

-----------------------------------------------------------------------------
(* Constants of the program *)

DB_UNHANDLED_EVENTS_KEY == "unhandled_events"
EVENT_REACTION_ADDED == "reaction_added"
EVENT_APP_MENTION == "app_mention"

\* the strings that reach the store as an event type: two event types of the
\* platform, and the string that is also the reserved key (the event type of
\* a webhook is typed into a plain_text_input, any string can be given)
EventTypes == {EVENT_REACTION_ADDED, EVENT_APP_MENTION, DB_UNHANDLED_EVENTS_KEY}

None == "<None>"
EmptyDict == [k \in {} |-> <<>>]

PyStr(s) == [str |-> s]
IsStr(x) == DOMAIN x = {"str"}
IsDict(x) == ~IsStr(x)

\* dict.get(key, default)
Get(d, key, default) == IF key \in DOMAIN d THEN d[key] ELSE default

\* d[key] = value
DictSet(d, key, value) ==
    [k \in DOMAIN d \cup {key} |-> IF k = key THEN value ELSE d[k]]

\* del d[key]
DictDel(d, key) == [k \in DOMAIN d \ {key} |-> d[k]]

Range(s) == {s[i] : i \in 1..Len(s)}

-----------------------------------------------------------------------------
(* The file: json.dumps on write, json.load at startup *)

\* a file just created by Path.touch()
EmptyFile == [kind |-> "empty", doc |-> EmptyDict]

\* a file whose bytes are not JSON (a snapshot cut short, a text)
TextFile == [kind |-> "text", doc |-> EmptyDict]

\* json.dumps(cache, indent=2) written over the file
json_dumps(c) == [kind |-> "json", doc |-> c]

\* the module-level load: json.load(jf), or {} on JSONDecodeError.  A file
\* that holds JSON loads as the value it holds, a dict or not.
StartupLoad(file) == IF file.kind = "json" THEN file.doc ELSE EmptyDict

sync_cache_to_disk(c) == json_dumps(c)

-----------------------------------------------------------------------------
(* The store operations.  Each takes the cache and the file as they are    *)
(* and gives them as the call leaves them, with the exception that escapes *)
(* the call ("" when it returns).                                          *)

Store(c, d, exc) == [cache |-> c, disk |-> d, exc |-> exc]

\* IN_MEMORY_WRITE_THROUGH_CACHE[key] when the cache is not a dict but a str
\* (the file held a JSON string): TypeError, string indices must be integers.
\* No operation catches it.
NotSubscriptable(c) == IsStr(c)

\* list.remove(x): the first item equal to x is removed
RECURSIVE ListRemove(_, _)
ListRemove(s, x) ==
    IF s = <<>> THEN <<>>
    ELSE IF Head(s) = x THEN Tail(s)
    ELSE <<Head(s)>> \o ListRemove(Tail(s), x)

\* the lists list(set(curr)) can give: the distinct items of curr, each once,
\* in the order the set iterates them, which the program does not fix
ListOfSet(curr) ==
    LET S == Range(curr)
    IN  {s \in [1..Cardinality(S) -> S] : Range(s) = S}

db_get_unhandled_events(c) == Get(c, DB_UNHANDLED_EVENTS_KEY, <<>>)

db_get_event_config_raises(c, event_type) == event_type \notin DOMAIN c

db_get_event_config(c, event_type) == c[event_type]

\* mutant: the removal is left out
db_remove_unhandled_event_left_out(c, d, event_type) == Store(c, d, "")

db_remove_unhandled_event(c, d, event_type) ==
    IF NotSubscriptable(c) THEN Store(c, d, "TypeError")
    ELSE IF DB_UNHANDLED_EVENTS_KEY \notin DOMAIN c
    THEN Store(c, d, "")        \* KeyError, suppressed before the sync
    ELSE IF PyStr(event_type) \notin Range(c[DB_UNHANDLED_EVENTS_KEY])
    THEN Store(c, d, "")        \* ValueError, suppressed before the sync
    ELSE LET c2 == DictSet(c, DB_UNHANDLED_EVENTS_KEY,
                       ListRemove(c[DB_UNHANDLED_EVENTS_KEY], PyStr(event_type)))
         IN  Store(c2, sync_cache_to_disk(c2), "")

\* mutant: a missing key gets an empty list, the event type is dropped
db_set_unhandled_event_drops_first(c, d, event_type, order) ==
    IF DB_UNHANDLED_EVENTS_KEY \in DOMAIN c
    THEN LET curr == Append(c[DB_UNHANDLED_EVENTS_KEY], PyStr(event_type))
         IN  IF \E i \in 1..Len(curr) : IsDict(curr[i])
             THEN Store(DictSet(c, DB_UNHANDLED_EVENTS_KEY, curr), d, "TypeError")
             ELSE LET c2 == DictSet(c, DB_UNHANDLED_EVENTS_KEY, order)
                  IN  Store(c2, sync_cache_to_disk(c2), "")
    ELSE LET c2 == DictSet(c, DB_UNHANDLED_EVENTS_KEY, <<>>)
         IN  Store(c2, sync_cache_to_disk(c2), "")

\* order: the list that list(set(curr)) gives when it is reached
db_set_unhandled_event(c, d, event_type, order) ==
    IF NotSubscriptable(c) THEN Store(c, d, "TypeError")
    ELSE IF DB_UNHANDLED_EVENTS_KEY \in DOMAIN c
    THEN LET curr == Append(c[DB_UNHANDLED_EVENTS_KEY], PyStr(event_type))
         IN  IF \E i \in 1..Len(curr) : IsDict(curr[i])
             THEN \* curr.append changed the cached list in place; set(curr)
                  \* raises TypeError (unhashable dict) before the sync
                  Store(DictSet(c, DB_UNHANDLED_EVENTS_KEY, curr), d, "TypeError")
             ELSE LET c2 == DictSet(c, DB_UNHANDLED_EVENTS_KEY, order)
                  IN  Store(c2, sync_cache_to_disk(c2), "")
    ELSE LET c2 == DictSet(c, DB_UNHANDLED_EVENTS_KEY, <<PyStr(event_type)>>)
         IN  Store(c2, sync_cache_to_disk(c2), "")

\* the orders db_set_unhandled_event can be called with in cache c
SetOrders(c, event_type) ==
    IF /\ DB_UNHANDLED_EVENTS_KEY \in DOMAIN c
       /\ \A i \in 1..Len(c[DB_UNHANDLED_EVENTS_KEY]) :
              IsStr(c[DB_UNHANDLED_EVENTS_KEY][i])
    THEN ListOfSet(Append(c[DB_UNHANDLED_EVENTS_KEY], PyStr(event_type)))
    ELSE {<<>>}

\* filter_reaction is a string, given as its characters; None (the default)
\* is falsy like the empty string and is given as <<>>
NewWebhook(name, webhook_url, adding_user_id, filter_reaction) ==
    LET new_webhook ==
            [name |-> name, webhook_url |-> webhook_url, added_by |-> adding_user_id]
    IN  IF filter_reaction # <<>>
        THEN DictSet(new_webhook, "filter_reaction", filter_reaction)
        ELSE new_webhook

\* mutant: a webhook appended to a bucket that exists is not written to the file
db_add_webhook_to_event_no_sync(c, d, event_type, new_webhook) ==
    IF event_type \in DOMAIN c
    THEN Store(DictSet(c, event_type, Append(c[event_type], new_webhook)), d, "")
    ELSE LET c2 == DictSet(c, event_type, <<new_webhook>>)
         IN  Store(c2, sync_cache_to_disk(c2), "")

db_add_webhook_to_event(c, d, event_type, new_webhook) ==
    IF NotSubscriptable(c) THEN Store(c, d, "TypeError") ELSE
    LET c2 == IF event_type \in DOMAIN c
              THEN DictSet(c, event_type, Append(c[event_type], new_webhook))
              ELSE DictSet(c, event_type, <<new_webhook>>)
    IN  Store(c2, sync_cache_to_disk(c2), "")

db_remove_event(c, d, event_type) ==
    IF NotSubscriptable(c) THEN Store(c, d, "TypeError")
    ELSE IF event_type \in DOMAIN c
    THEN LET c2 == DictDel(c, event_type)
         IN  Store(c2, sync_cache_to_disk(c2), "")
    ELSE Store(c, d, "")        \* KeyError: "Key doesnt exist to delete"

\* mutant: the import leaves the unhandled-events key out
db_import_cache_skips_unhandled(c, new_data) ==
    [k \in DOMAIN c \cup (DOMAIN new_data \ {DB_UNHANDLED_EVENTS_KEY}) |->
        IF k \in DOMAIN new_data THEN new_data[k] ELSE c[k]]

\* mutant: the import puts the snapshot in the place of the cache
db_import_cache_replaces_all(c, new_data) == new_data

db_import_cache(c, new_data) ==
    [k \in DOMAIN c \cup DOMAIN new_data |->
        IF k \in DOMAIN new_data THEN new_data[k] ELSE c[k]]

db_import_count(new_data) == Cardinality(DOMAIN new_data)

db_import(c, d, new_data) ==
    IF NotSubscriptable(c) /\ new_data # EmptyDict
    THEN Store(c, d, "TypeError")       \* at the first cache[k] = v
    ELSE LET c2 == db_import_cache(c, new_data)
         IN  Store(c2, sync_cache_to_disk(c2), "")

db_export(c) == c

-----------------------------------------------------------------------------
(* The filter and the payload transformer.  The strings the filter edits   *)
(* (reaction names) are sequences of characters.                           *)

\* str.replace(":", "")
RECURSIVE StripColons(_)
StripColons(s) ==
    IF s = <<>> THEN <<>>
    ELSE IF Head(s) = ":" THEN StripColons(Tail(s))
    ELSE <<Head(s)>> \o StripColons(Tail(s))

\* mutant: for a reaction-added event the channel is looked at first
should_filter_event_channel_first(webhook_config, event) ==
    LET event_type     == Get(event, "type", None)
        filter_react   == StripColons(Get(webhook_config, "filter_react", <<>>))
        filter_channel == Get(webhook_config, "filter_channel", "")
        channel_id     == IF event_type = EVENT_REACTION_ADDED
                          THEN Get(Get(event, "item", EmptyDict), "channel", None)
                          ELSE Get(event, "channel", None)
    IN  IF event_type \in {EVENT_REACTION_ADDED, EVENT_APP_MENTION}
           /\ filter_channel # "" /\ filter_channel # channel_id
        THEN "No channel match"
        ELSE IF event_type = EVENT_REACTION_ADDED
                /\ filter_react # <<>> /\ filter_react # Get(event, "reaction", <<>>)
        THEN "No emoji match"
        ELSE None

\* the reason for which webhook_config does not get the event, or None
should_filter_event(webhook_config, event) ==
    LET event_type == Get(event, "type", None)
    IN  IF event_type = EVENT_REACTION_ADDED
        THEN LET filter_react   == StripColons(Get(webhook_config, "filter_react", <<>>))
                 filter_channel == Get(webhook_config, "filter_channel", "")
                 reaction       == Get(event, "reaction", <<>>)
                 channel_id     == Get(Get(event, "item", EmptyDict), "channel", None)
             IN  IF filter_react # <<>> /\ filter_react # reaction
                 THEN "No emoji match"
                 ELSE IF filter_channel # "" /\ filter_channel # channel_id
                 THEN "No channel match"
                 ELSE None
        ELSE IF event_type = EVENT_APP_MENTION
        THEN LET filter_channel == Get(webhook_config, "filter_channel", "")
                 channel_id     == Get(event, "channel", None)
             IN  IF filter_channel # "" /\ filter_channel # channel_id
                 THEN "No channel match"
                 ELSE None
        ELSE None

\* str(n) of an integer n >= 0, as its decimal digits
RECURSIVE PyStrInt(_)
PyStrInt(n) ==
    LET digit == <<"0", "1", "2", "3", "4", "5", "6", "7", "8", "9">>[(n % 10) + 1]
    IN  IF n < 10 THEN <<digit>> ELSE PyStrInt(n \div 10) \o <<digit>>

\* mutant: item_ts is given the event's event_ts
flatten_payload_item_ts_of_event(event) ==
    LET et == event["type"]
    IN  IF et = "reaction_added"
        THEN [type         |-> et,
              user         |-> event["user"],
              reaction     |-> event["reaction"],
              item_user    |-> event["item_user"],
              item_type    |-> event["item"]["type"],
              item_channel |-> event["item"]["channel"],
              item_ts      |-> event["event_ts"],
              event_ts     |-> event["event_ts"]]
        ELSE event

flatten_payload_for_slack_workflow_builder(event) ==
    LET et == event["type"]
    IN  IF et = "reaction_added"
        THEN [type         |-> et,
              user         |-> event["user"],
              reaction     |-> event["reaction"],
              item_user    |-> event["item_user"],
              item_type    |-> event["item"]["type"],
              item_channel |-> event["item"]["channel"],
              item_ts      |-> event["item"]["ts"],
              event_ts     |-> event["event_ts"]]
        ELSE IF et = "channel_created"
        THEN [type            |-> et,
              channel_id      |-> event["channel"]["id"],
              channel_name    |-> event["channel"]["name"],
              channel_created |-> PyStrInt(event["channel"]["created"]),
              channel_creator |-> event["channel"]["creator"]]
        ELSE event

-----------------------------------------------------------------------------
(* The dispatcher *)

\* what requests.request does with one call: a response with a status code,
\* or an exception (the call could not be sent)
Responded(status_code) == [exc |-> "", status_code |-> status_code]
NotSent == [exc |-> "ConnectionError", status_code |-> 0]
Responses == {Responded(200), Responded(500), NotSent}

Trace(sent, errors, filtered, exc) ==
    [sent |-> sent, errors |-> errors, filtered |-> filtered, exc |-> exc]

\* the for loop of generic_event_proxy from item i on.  sent: the calls made
\* so far (item, url, body, whether the call raised, the status returned);
\* errors: the items logged with logger.error; filtered: the items skipped.
\* resp[i] is what the call for item i meets.
RECURSIVE FanOut(_, _, _, _, _)
FanOut(items, event, resp, i, tr) ==
    IF i > Len(items) THEN tr
    ELSE LET webhook_config == items[i]
         IN  IF IsStr(webhook_config)
             THEN \* webhook_config.get on a str
                  Trace(tr.sent, tr.errors, tr.filtered, "AttributeError")
             ELSE IF should_filter_event(webhook_config, event) # None
             THEN FanOut(items, event, resp, i + 1,
                         Trace(tr.sent, tr.errors, Append(tr.filtered, i), ""))
             ELSE LET json_body ==
                          IF Get(webhook_config, "raw_event", FALSE)
                          THEN event
                          ELSE flatten_payload_for_slack_workflow_builder(event)
                      call == [item |-> i,
                               url  |-> webhook_config["webhook_url"],
                               json |-> json_body,
                               raised |-> resp[i].exc # "",
                               status_code |-> resp[i].status_code]
                  IN  IF resp[i].exc # ""
                      THEN Trace(Append(tr.sent, call), tr.errors, tr.filtered,
                                 resp[i].exc)
                      ELSE FanOut(items, event, resp, i + 1,
                                  Trace(Append(tr.sent, call),
                                        IF resp[i].status_code >= 300
                                        THEN Append(tr.errors, i) ELSE tr.errors,
                                        tr.filtered, ""))

NoTrace == Trace(<<>>, <<>>, <<>>, "")

\* the first item whose call returns a status >= 300, or Len(items) if none
FirstFailure(items, event, resp) ==
    LET failing == {i \in 1..Len(items) :
                       /\ IsDict(items[i])
                       /\ should_filter_event(items[i], event) = None
                       /\ resp[i].exc = ""
                       /\ resp[i].status_code >= 300}
    IN  IF failing = {} THEN Len(items)
        ELSE CHOOSE i \in failing : \A j \in failing : i <= j

\* mutant: the loop ends at the first status >= 300
generic_event_proxy_stops_at_failure(c, d, event, order, resp) ==
    LET event_type == Get(event, "type", None)
    IN  IF NotSubscriptable(c)
        THEN [cache |-> c, disk |-> d, found |-> FALSE,
              trace |-> Trace(<<>>, <<>>, <<>>, "TypeError")]
        ELSE IF db_get_event_config_raises(c, event_type)
        THEN LET st == db_set_unhandled_event(c, d, event_type, order)
             IN  [cache |-> st.cache, disk |-> st.disk, found |-> FALSE,
                  trace |-> Trace(<<>>, <<>>, <<>>, st.exc)]
        ELSE LET st == db_remove_unhandled_event(c, d, event_type)
                 workflow_webhooks_to_request ==
                     db_get_event_config(st.cache, event_type)
             IN  [cache |-> st.cache, disk |-> st.disk, found |-> TRUE,
                  trace |-> FanOut(SubSeq(workflow_webhooks_to_request, 1,
                                          FirstFailure(workflow_webhooks_to_request,
                                                       event, resp)),
                                   event, resp, 1, NoTrace)]

\* mutant: the lookup of a type without a bucket leaves an empty bucket
generic_event_proxy_makes_bucket(c, d, event, order, resp) ==
    LET event_type == Get(event, "type", None)
    IN  IF NotSubscriptable(c)
        THEN [cache |-> c, disk |-> d, found |-> FALSE,
              trace |-> Trace(<<>>, <<>>, <<>>, "TypeError")]
        ELSE IF db_get_event_config_raises(c, event_type)
        THEN LET st == db_set_unhandled_event(DictSet(c, event_type, <<>>), d,
                                              event_type, order)
             IN  [cache |-> st.cache, disk |-> st.disk, found |-> FALSE,
                  trace |-> Trace(<<>>, <<>>, <<>>, st.exc)]
        ELSE LET st == db_remove_unhandled_event(c, d, event_type)
                 workflow_webhooks_to_request ==
                     db_get_event_config(st.cache, event_type)
             IN  [cache |-> st.cache, disk |-> st.disk, found |-> TRUE,
                  trace |-> FanOut(workflow_webhooks_to_request, event, resp, 1,
                                   NoTrace)]

\* generic_event_proxy: the store and the trace of calls it leaves
generic_event_proxy(c, d, event, order, resp) ==
    LET event_type == Get(event, "type", None)
    IN  IF NotSubscriptable(c)
        THEN \* db_get_event_config raises TypeError, not KeyError
             [cache |-> c, disk |-> d, found |-> FALSE,
              trace |-> Trace(<<>>, <<>>, <<>>, "TypeError")]
        ELSE IF db_get_event_config_raises(c, event_type)
        THEN LET st == db_set_unhandled_event(c, d, event_type, order)
             IN  [cache |-> st.cache, disk |-> st.disk, found |-> FALSE,
                  trace |-> Trace(<<>>, <<>>, <<>>, st.exc)]
        ELSE LET st == db_remove_unhandled_event(c, d, event_type)
                 \* workflow_webhooks_to_request is the cached list itself
                 workflow_webhooks_to_request ==
                     db_get_event_config(st.cache, event_type)
             IN  [cache |-> st.cache, disk |-> st.disk, found |-> TRUE,
                  trace |-> FanOut(workflow_webhooks_to_request, event, resp, 1,
                                   NoTrace)]

-----------------------------------------------------------------------------
(* The inputs of the model *)

thumbsup == <<"t", "h", "u", "m", "b", "s", "u", "p">>
grin == <<"g", "r", "i", "n">>

ReactionAdded(reaction) ==
    [type |-> EVENT_REACTION_ADDED, user |-> "U1", reaction |-> reaction,
     item_user |-> "U2",
     item |-> [type |-> "message", channel |-> "C1", ts |-> "1.1"],
     event_ts |-> "2.2"]

AppMention == [type |-> EVENT_APP_MENTION, user |-> "U1", channel |-> "C1",
               ts |-> "1.1"]

\* an event whose type is the string of the reserved key
ReservedTypeEvent == [type |-> DB_UNHANDLED_EVENTS_KEY]

Events == {ReactionAdded(thumbsup), ReactionAdded(grin), AppMention,
           ReservedTypeEvent}

\* the webhooks db_add_webhook_to_event is called for; filter_reaction None
\* (the default) is falsy like the empty string, and is given as <<>>
Webhooks ==
    {NewWebhook("first", "https://hooks/1", "U1", <<>>),
     NewWebhook("second", "https://hooks/2", "U1", thumbsup)}

\* the snapshots db_import is called with
ImportData ==
    {EmptyDict,
     [unhandled_events |-> <<PyStr(EVENT_REACTION_ADDED), PyStr(EVENT_REACTION_ADDED)>>],
     [reaction_added |->
        <<[name |-> "third", webhook_url |-> "https://hooks/3", added_by |-> "U2",
           filter_react |-> <<":">> \o thumbsup \o <<":">>],
          [name |-> "first", webhook_url |-> "https://hooks/1", added_by |-> "U1"]>>],
     [app_mention |->
        <<[name |-> "fourth", webhook_url |-> "https://hooks/4", added_by |-> "U2",
           filter_channel |-> "C2"]>>,
      unhandled_events |-> <<PyStr(EVENT_APP_MENTION)>>]}

\* the list under the unhandled-events key stays within the bound of the model
Bounded(c) == Len(db_get_unhandled_events(c)) <= MaxUnhandled

\* a webhook of Webhooks is added to a list once
NotYetAdded(c, event_type, new_webhook) ==
    new_webhook \notin Range(Get(c, event_type, <<>>))

-----------------------------------------------------------------------------
(* The state machine: one operation at a time *)

\* arg: the webhook added, the snapshot imported or the event dispatched
Op(op, event_type, arg, exc, found, trace, count) ==
    [op |-> op, event_type |-> event_type, arg |-> arg, exc |-> exc,
     found |-> found, trace |-> trace, count |-> count]

Idle == Op("idle", None, None, "", FALSE, NoTrace, 0)

Chain(event_type, phase, via) ==
    [event_type |-> event_type, phase |-> phase, via |-> via]

NoChain == Chain(None, "none", None)

NoThreads == <<>>

Init ==
    /\ disk = EmptyFile
    /\ cache = StartupLoad(disk)
    /\ last = Op("startup", None, None, "", FALSE, NoTrace, 0)
    /\ chain = NoChain
    /\ threads = NoThreads

\* the operation that ran last has returned to its caller (or its exception
\* has reached it): the next one can be called
Return ==
    /\ last.op # "idle"
    /\ last' = Idle
    /\ UNCHANGED <<cache, disk, chain, threads>>

\* the process is started again: the module-level load runs
Restart ==
    /\ last = Idle
    /\ UNCHANGED threads
    /\ cache' = StartupLoad(disk)
    /\ last' = Op("startup", None, None, "", FALSE, NoTrace, 0)
    /\ chain' = NoChain
    /\ UNCHANGED disk

AddRegistration(event_type, new_webhook) ==
    /\ last = Idle
    /\ UNCHANGED threads
    /\ \E st \in {db_add_webhook_to_event(cache, disk, event_type, new_webhook)} :
        /\ NotYetAdded(cache, event_type, new_webhook)
        /\ Bounded(st.cache)
        /\ cache' = st.cache
        /\ disk' = st.disk
        /\ last' = Op("add_registration", event_type, new_webhook, st.exc, FALSE,
                      NoTrace, 0)
        /\ chain' = IF chain.phase = "marked" /\ chain.event_type = event_type
                    THEN Chain(event_type, "registered", chain.via)
                    ELSE NoChain

RemoveBucket(event_type) ==
    /\ last = Idle
    /\ UNCHANGED threads
    /\ \E st \in {db_remove_event(cache, disk, event_type)} :
        /\ cache' = st.cache
        /\ disk' = st.disk
        /\ last' = Op("remove_bucket", event_type, None, st.exc, FALSE, NoTrace, 0)
        /\ chain' = NoChain

MarkUnhandled(event_type) ==
    /\ last = Idle
    /\ UNCHANGED threads
    /\ \E order \in SetOrders(cache, event_type) :
       \E st \in {db_set_unhandled_event(cache, disk, event_type, order)} :
        /\ Bounded(st.cache)
        /\ cache' = st.cache
        /\ disk' = st.disk
        /\ last' = Op("mark_unhandled", event_type, None, st.exc, FALSE, NoTrace, 0)
        /\ chain' = IF st.exc = ""
                    THEN Chain(event_type, "marked", "mark_unhandled")
                    ELSE NoChain

ClearUnhandled(event_type) ==
    /\ last = Idle
    /\ UNCHANGED threads
    /\ \E st \in {db_remove_unhandled_event(cache, disk, event_type)} :
        /\ cache' = st.cache
        /\ disk' = st.disk
        /\ last' = Op("clear_unhandled", event_type, None, st.exc, FALSE, NoTrace, 0)
        /\ chain' = NoChain

ImportSnapshot(new_data) ==
    /\ last = Idle
    /\ UNCHANGED threads
    /\ \E st \in {db_import(cache, disk, new_data)} :
        /\ cache' = st.cache
        /\ disk' = st.disk
        /\ last' = Op("import_snapshot", None, new_data, st.exc, FALSE, NoTrace,
                      db_import_count(new_data))
        /\ chain' = NoChain

\* the for loop of a dispatch runs over at most this many items
CallsAtMost(c, event_type) ==
    IF event_type \in DOMAIN c THEN Len(c[event_type]) ELSE 0

Dispatch(event) ==
    /\ last = Idle
    /\ UNCHANGED threads
    /\ \E order \in SetOrders(cache, event.type) :
       \E resp \in [1..CallsAtMost(cache, event.type) -> Responses] :
       \E r \in {generic_event_proxy(cache, disk, event, order, resp)} :
        /\ Bounded(r.cache)
        /\ cache' = r.cache
        /\ disk' = r.disk
        /\ last' = Op("dispatch", event.type, event, r.trace.exc, r.found,
                      r.trace, 0)
        /\ chain' = IF ~r.found /\ r.trace.exc = ""
                    THEN Chain(event.type, "marked", "dispatch")
                    ELSE IF chain.phase = "registered" /\ chain.event_type = event.type
                    THEN Chain(event.type, "dispatched", chain.via)
                    ELSE NoChain

Next ==
    \/ Return
    \/ Restart
    \/ \E t \in EventTypes, w \in Webhooks : AddRegistration(t, w)
    \/ \E t \in EventTypes : RemoveBucket(t)
    \/ \E t \in EventTypes : MarkUnhandled(t)
    \/ \E t \in EventTypes : ClearUnhandled(t)
    \/ \E data \in ImportData : ImportSnapshot(data)
    \/ \E event \in Events : Dispatch(event)

Spec == Init /\ [][Next]_vars

\* the files the process can find when it starts: the file just created, a
\* file that is not JSON, a file that holds JSON but no dict (a JSON string),
\* and a snapshot written by sync_cache_to_disk
StartupFiles ==
    {EmptyFile, TextFile, json_dumps(PyStr("x")),
     json_dumps([app_mention |->
                    <<NewWebhook("first", "https://hooks/1", "U1", <<>>)>>])}

InitStartup ==
    /\ disk \in StartupFiles
    /\ cache = StartupLoad(disk)
    /\ last = Op("startup", None, None, "", FALSE, NoTrace, 0)
    /\ chain = NoChain
    /\ threads = NoThreads

\* the program started on any of the files of StartupFiles
SpecStartup == InitStartup /\ [][Next]_vars

-----------------------------------------------------------------------------
(* The filter by itself: should_filter_event applied to a webhook and an   *)
(* event.  last holds the call: its arguments and, once it has returned,   *)
(* the reason it gave.                                                     *)

\* d with d[key] = value when present, d otherwise
WithOptional(d, key, present, value) ==
    IF present THEN DictSet(d, key, value) ELSE d

\* webhooks with and without a filter_react (with colons, of colons only,
\* empty) and with and without a filter_channel
FilterWebhooks ==
    {WithOptional(
        WithOptional([name |-> "first", webhook_url |-> "https://hooks/1"],
                     "filter_react", has_react, filter_react),
        "filter_channel", has_channel, filter_channel) :
       has_react \in BOOLEAN,
       filter_react \in {<<>>, <<":">>, thumbsup, <<":">> \o grin \o <<":">>},
       has_channel \in BOOLEAN,
       filter_channel \in {"", "C1", "C2"}}

\* reaction-added events with and without a reaction and an item channel,
\* app-mention events with and without a channel, an event of another type
FilterEvents ==
    {WithOptional(
        WithOptional([type |-> EVENT_REACTION_ADDED, user |-> "U1"],
                     "reaction", has_reaction, reaction),
        "item", has_item, [type |-> "message", channel |-> channel]) :
       has_reaction \in BOOLEAN, reaction \in {thumbsup, grin},
       has_item \in BOOLEAN, channel \in {"C1", "C2"}}
    \cup {WithOptional([type |-> EVENT_APP_MENTION, user |-> "U1"],
                       "channel", has_channel, channel) :
            has_channel \in BOOLEAN, channel \in {"C1", "C2"}}
    \cup {[type |-> "channel_created"]}

FilterCall(webhook_config, event, returned, reason) ==
    [op |-> "should_filter_event", webhook_config |-> webhook_config,
     event |-> event, returned |-> returned, reason |-> reason]

InitFilter ==
    /\ cache = EmptyDict
    /\ disk = EmptyFile
    /\ chain = NoChain
    /\ threads = NoThreads
    /\ \E webhook_config \in FilterWebhooks, event \in FilterEvents :
          last = FilterCall(webhook_config, event, FALSE, None)

ShouldFilter ==
    /\ ~last.returned
    /\ last' = FilterCall(last.webhook_config, last.event, TRUE,
                          should_filter_event(last.webhook_config, last.event))
    /\ UNCHANGED <<cache, disk, chain, threads>>

SpecFilter == InitFilter /\ [][ShouldFilter]_vars

-----------------------------------------------------------------------------
(* The payload transformer by itself.  last holds the call: the event and, *)
(* once it has returned, the payload it gave.                              *)

\* the strings the fields of the events hold
FieldStrings == {"U1", "U2", "message", "file", "C1", "C2", "1.1", "2.2", "T1"}

\* reaction-added events that carry every field read, with and without a
\* field that is not read; a channel-created event; an app-mention event
FlattenEvents ==
    {WithOptional(
        [type |-> "reaction_added", user |-> user, reaction |-> reaction,
         item_user |-> item_user,
         item |-> [type |-> item_type, channel |-> channel, ts |-> "1.1"],
         event_ts |-> "2.2"],
        "team", has_team, "T1") :
       user \in {"U1", "U2"}, reaction \in {thumbsup, grin},
       item_user \in {"U1", "U2"}, item_type \in {"message", "file"},
       channel \in {"C1", "C2"}, has_team \in BOOLEAN}
    \cup {[type |-> "channel_created",
           channel |-> [id |-> "C2", name |-> "fun", created |-> 1360782804,
                        creator |-> "U1"]],
          AppMention}

FlattenCall(event, returned, flat_payload) ==
    [op |-> "flatten_payload_for_slack_workflow_builder", event |-> event,
     returned |-> returned, flat_payload |-> flat_payload]

InitFlatten ==
    /\ cache = EmptyDict
    /\ disk = EmptyFile
    /\ chain = NoChain
    /\ threads = NoThreads
    /\ \E event \in FlattenEvents : last = FlattenCall(event, FALSE, EmptyDict)

Flatten ==
    /\ ~last.returned
    /\ last' = FlattenCall(last.event, TRUE,
                           flatten_payload_for_slack_workflow_builder(last.event))
    /\ UNCHANGED <<cache, disk, chain, threads>>

SpecFlatten == InitFlatten /\ [][Flatten]_vars

-----------------------------------------------------------------------------
(* Two threads of the one process, each inside db_set_unhandled_event or   *)
(* db_remove_unhandled_event, their steps interleaved: the program takes   *)
(* no lock.  A step is one read or write of the cache, of a list or of the *)
(* file.  A list is an object: curr is the list of the cache (aliased)     *)
(* until another thread puts a new list under the key; from then on it is  *)
(* a list that only this thread holds, kept in curr.                       *)

Thread(op, event_type, pc, aliased, curr, value, json_str) ==
    [op |-> op, event_type |-> event_type, pc |-> pc, aliased |-> aliased,
     curr |-> curr, value |-> value, json_str |-> json_str]

\* the thread has called op(event_type) and has not run a step of it
Called(op, event_type) ==
    Thread(op, event_type, "get", FALSE, <<>>, <<>>, EmptyFile)

\* the stores the two calls are made on
ConcurrentStores ==
    {EmptyDict,
     [unhandled_events |-> <<>>],
     [unhandled_events |-> <<PyStr(EVENT_APP_MENTION)>>],
     [unhandled_events |-> <<PyStr(EVENT_REACTION_ADDED), PyStr(EVENT_APP_MENTION)>>]}

InitConcurrent ==
    /\ cache \in ConcurrentStores
    /\ disk = sync_cache_to_disk(cache)
    /\ last = Idle
    /\ chain = NoChain
    /\ threads \in [1..2 -> {Called(op, event_type) :
                                op \in {"mark_unhandled", "clear_unhandled"},
                                event_type \in {EVENT_REACTION_ADDED,
                                                EVENT_APP_MENTION}}]

\* the list that curr is in thread i
CurrOf(i) ==
    IF threads[i].aliased THEN cache[DB_UNHANDLED_EVENTS_KEY] ELSE threads[i].curr

\* IN_MEMORY_WRITE_THROUGH_CACHE[c.DB_UNHANDLED_EVENTS_KEY] is read; on
\* KeyError db_set_unhandled_event goes to its except branch and
\* db_remove_unhandled_event returns
GetList(i) ==
    /\ threads[i].pc = "get"
    /\ threads' =
          IF DB_UNHANDLED_EVENTS_KEY \in DOMAIN cache
          THEN [threads EXCEPT ![i].aliased = TRUE,
                               ![i].pc = IF threads[i].op = "mark_unhandled"
                                         THEN "append" ELSE "remove"]
          ELSE [threads EXCEPT ![i].pc = IF threads[i].op = "mark_unhandled"
                                         THEN "set_first" ELSE "done"]
    /\ UNCHANGED <<cache, disk, last, chain>>

\* curr.append(event_type)
AppendToList(i) ==
    /\ threads[i].pc = "append"
    /\ IF threads[i].aliased
       THEN /\ cache' = DictSet(cache, DB_UNHANDLED_EVENTS_KEY,
                                Append(cache[DB_UNHANDLED_EVENTS_KEY],
                                       PyStr(threads[i].event_type)))
            /\ threads' = [threads EXCEPT ![i].pc = "dedupe"]
       ELSE /\ threads' = [threads EXCEPT
                              ![i].curr = Append(threads[i].curr,
                                                 PyStr(threads[i].event_type)),
                              ![i].pc = "dedupe"]
            /\ UNCHANGED cache
    /\ UNCHANGED <<disk, last, chain>>

\* list(set(curr)) is evaluated
Dedupe(i) ==
    /\ threads[i].pc = "dedupe"
    /\ \E order \in ListOfSet(CurrOf(i)) :
          threads' = [threads EXCEPT ![i].value = order, ![i].pc = "assign",
                                     ![i].aliased = FALSE, ![i].curr = <<>>]
    /\ UNCHANGED <<cache, disk, last, chain>>

\* IN_MEMORY_WRITE_THROUGH_CACHE[c.DB_UNHANDLED_EVENTS_KEY] = value: the
\* list that was under the key is from now on held only by the threads
\* that have it as curr
StoreList(i, value) ==
    /\ cache' = DictSet(cache, DB_UNHANDLED_EVENTS_KEY, value)
    /\ threads' =
          [j \in 1..2 |->
             IF j = i
             THEN [threads[i] EXCEPT !.pc = "dumps", !.value = <<>>]
             ELSE IF threads[j].aliased
             THEN [threads[j] EXCEPT !.aliased = FALSE,
                                     !.curr = cache[DB_UNHANDLED_EVENTS_KEY]]
             ELSE threads[j]]
    /\ UNCHANGED <<disk, last, chain>>

AssignList(i) ==
    /\ threads[i].pc = "assign"
    /\ StoreList(i, threads[i].value)

\* the except KeyError branch of db_set_unhandled_event
SetFirst(i) ==
    /\ threads[i].pc = "set_first"
    /\ StoreList(i, <<PyStr(threads[i].event_type)>>)

\* .remove(event_type) on the list read; ValueError is suppressed and the
\* operation returns without a sync
RemoveFromList(i) ==
    /\ threads[i].pc = "remove"
    /\ IF PyStr(threads[i].event_type) \notin Range(CurrOf(i))
       THEN /\ threads' = [threads EXCEPT ![i].pc = "done", ![i].aliased = FALSE,
                                          ![i].curr = <<>>]
            /\ UNCHANGED cache
       ELSE /\ threads' = [threads EXCEPT ![i].pc = "dumps", ![i].aliased = FALSE,
                                          ![i].curr = <<>>]
            /\ cache' = IF threads[i].aliased
                        THEN DictSet(cache, DB_UNHANDLED_EVENTS_KEY,
                                     ListRemove(cache[DB_UNHANDLED_EVENTS_KEY],
                                                PyStr(threads[i].event_type)))
                        ELSE cache
    /\ UNCHANGED <<disk, last, chain>>

\* sync_cache_to_disk: json_str = json.dumps(IN_MEMORY_WRITE_THROUGH_CACHE)
Dumps(i) ==
    /\ threads[i].pc = "dumps"
    /\ threads' = [threads EXCEPT ![i].json_str = json_dumps(cache),
                                  ![i].pc = "write"]
    /\ UNCHANGED <<cache, disk, last, chain>>

\* sync_cache_to_disk: the file is opened for writing and json_str written
WriteFile(i) ==
    /\ threads[i].pc = "write"
    /\ disk' = threads[i].json_str
    /\ threads' = [threads EXCEPT ![i].json_str = EmptyFile, ![i].pc = "done"]
    /\ UNCHANGED <<cache, last, chain>>

NextConcurrent ==
    \E i \in 1..2 :
        \/ GetList(i)
        \/ AppendToList(i)
        \/ Dedupe(i)
        \/ AssignList(i)
        \/ SetFirst(i)
        \/ RemoveFromList(i)
        \/ Dumps(i)
        \/ WriteFile(i)

SpecConcurrent == InitConcurrent /\ [][NextConcurrent]_vars

-----------------------------------------------------------------------------
(* The check of a channel name by itself.  A name is the sequence of its   *)
(* characters; last holds the call and, once it has returned, its result.  *)

\* the characters of the names: what the classes \d, [a-z], [A-Z], \W and
\* \s of the regular expressions tell apart
LowercaseLetters == {"a", "b"}
UppercaseLetters == {"A"}
Digits == {"1"}
Whitespace == {" "}
NameCharacters ==
    LowercaseLetters \cup UppercaseLetters \cup Digits \cup Whitespace \cup {"-", "_"}

\* \W: the characters that are no letter, no digit and not the underscore
NonWordCharacters ==
    NameCharacters \ (LowercaseLetters \cup UppercaseLetters \cup Digits \cup {"_"})

\* re.search(class+, channel_name): some character of the name is in the class
re_search(class, channel_name) ==
    \E i \in 1..Len(channel_name) : channel_name[i] \in class

is_valid_slack_channel_name(channel_name) ==
    /\ Len(channel_name) <= 80
    /\ re_search(Digits, channel_name)
    /\ re_search(LowercaseLetters, channel_name)
    /\ re_search(UppercaseLetters, channel_name)
    /\ re_search(NonWordCharacters, channel_name)
    /\ ~re_search(Whitespace, channel_name)

\* "a" * n
Repeated(ch, n) == [i \in 1..n |-> ch]

\* the names checked: every name of up to 4 characters, by itself and
\* followed by 76 and by 77 letters (names of 76 to 81 characters)
ShortNames == UNION {[1..n -> NameCharacters] : n \in 0..4}
ChannelNames ==
    {name \o Repeated("a", n) : name \in ShortNames, n \in {0, 76, 77}}

ChannelNameCall(channel_name, returned, result) ==
    [op |-> "is_valid_slack_channel_name", channel_name |-> channel_name,
     returned |-> returned, result |-> result]

InitChannelName ==
    /\ cache = EmptyDict
    /\ disk = EmptyFile
    /\ chain = NoChain
    /\ threads = NoThreads
    /\ \E channel_name \in ChannelNames :
          last = ChannelNameCall(channel_name, FALSE, FALSE)

IsValidSlackChannelName ==
    /\ ~last.returned
    /\ last' = ChannelNameCall(last.channel_name, TRUE,
                               is_valid_slack_channel_name(last.channel_name))
    /\ UNCHANGED <<cache, disk, chain, threads>>

SpecChannelName == InitChannelName /\ [][IsValidSlackChannelName]_vars

-----------------------------------------------------------------------------
(* The sampling of channel members by itself.  last holds the call: its    *)
(* arguments, its local variables, the passes its loop has made and, once  *)
(* it is over, what it returned or raised.                                 *)

max_num_allowed_iterations == 15

\* client.users_info(user=user_id): two people, a bot, a workflow bot, and a
\* user the platform gives no information on
users_info ==
    [U1 |-> [ok |-> TRUE,  user |-> [is_bot |-> FALSE, is_workflow_bot |-> FALSE]],
     U2 |-> [ok |-> TRUE,  user |-> [is_bot |-> FALSE, is_workflow_bot |-> FALSE]],
     B1 |-> [ok |-> TRUE,  user |-> [is_bot |-> TRUE,  is_workflow_bot |-> FALSE]],
     W1 |-> [ok |-> TRUE,  user |-> [is_bot |-> FALSE, is_workflow_bot |-> TRUE]],
     X1 |-> [ok |-> FALSE, user |-> [is_bot |-> FALSE, is_workflow_bot |-> FALSE]]]

\* the user is kept by filter_bots
IsKept(user_id) ==
    LET resp == users_info[user_id]
    IN  /\ resp["ok"]
        /\ ~(resp["user"]["is_bot"] \/ resp["user"]["is_workflow_bot"])

filter_bots(user_list) == SelectSeq(user_list, IsKept)

\* the member lists and the numbers of users asked for
MemberLists == UNION {[1..n -> DOMAIN users_info] : n \in 0..2}
NumbersOfUsers == 0..2

SampleCall(members, number_of_users, no_bot_users_sample, runs, iterations, returned, exc) ==
    [op |-> "sample_list_until_no_bots_are_found", members |-> members,
     number_of_users |-> number_of_users,
     no_bot_users_sample |-> no_bot_users_sample, runs |-> runs,
     iterations |-> iterations, returned |-> returned, exc |-> exc]

InitSample ==
    /\ cache = EmptyDict
    /\ disk = EmptyFile
    /\ chain = NoChain
    /\ threads = NoThreads
    /\ \E members \in MemberLists, number_of_users \in NumbersOfUsers :
          last = SampleCall(members, number_of_users, <<>>, 0, 0, FALSE, "")

\* the condition of the while loop
WhileCondition ==
    /\ Len(last.no_bot_users_sample) < last.number_of_users
    /\ last.runs < max_num_allowed_iterations

\* one pass of the loop, random.choice(members) giving members[i]; runs is
\* not assigned in the loop
LoopPass(i) ==
    /\ ~last.returned /\ last.exc = ""
    /\ WhileCondition
    /\ last.iterations < MaxIterations
    /\ i \in 1..Len(last.members)
    /\ LET rand_user == last.members[i]
           sample ==
               IF rand_user \in Range(last.no_bot_users_sample)
               THEN last.no_bot_users_sample          \* continue
               ELSE last.no_bot_users_sample \o filter_bots(<<rand_user>>)
       IN  last' = SampleCall(last.members, last.number_of_users, sample,
                              last.runs, last.iterations + 1, FALSE, "")
    /\ UNCHANGED <<cache, disk, chain, threads>>

\* random.choice of an empty list raises IndexError
ChoiceFails ==
    /\ ~last.returned /\ last.exc = ""
    /\ WhileCondition
    /\ last.members = <<>>
    /\ last' = [last EXCEPT !.exc = "IndexError"]
    /\ UNCHANGED <<cache, disk, chain, threads>>

\* the loop is over: no_bot_users_sample is returned
ReturnSample ==
    /\ ~last.returned /\ last.exc = ""
    /\ ~WhileCondition
    /\ last' = [last EXCEPT !.returned = TRUE]
    /\ UNCHANGED <<cache, disk, chain, threads>>

NextSample ==
    \/ \E i \in DOMAIN last.members : LoopPass(i)
    \/ ChoiceFails
    \/ ReturnSample

SpecSample == InitSample /\ [][NextSample]_vars

-----------------------------------------------------------------------------
(* What the claims speak of *)

\* the event types in the list under the unhandled-events key
UnhandledTypes(c) ==
    {x.str : x \in {y \in Range(db_get_unhandled_events(c)) : IsStr(y)}}

\* how many times event_type is in the list under the unhandled-events key
TimesUnhandled(c, event_type) ==
    Cardinality({i \in 1..Len(db_get_unhandled_events(c)) :
                    db_get_unhandled_events(c)[i] = PyStr(event_type)})

Mutating == {"add_registration", "remove_bucket", "mark_unhandled",
             "clear_unhandled", "import_snapshot", "dispatch"}

\* C1: after every mutating store operation that completes (it returns, no
\* exception escapes it), the cache equals the contents of the file.
C1_CacheEqualsFile ==
    (last.op \in Mutating /\ last.exc = "") => cache = StartupLoad(disk)

\* C2: when add_registration has given an event type its first registration,
\* the type is not both in the unhandled-event set and the key of a non-empty
\* bucket.
C2_AddClearsUnhandled ==
    \A t \in EventTypes \ {DB_UNHANDLED_EVENTS_KEY} :
        (last.op = "add_registration" /\ last.event_type = t /\ Len(cache[t]) = 1)
            => ~(t \in UnhandledTypes(cache) /\ cache[t] # <<>>)

\* C3: a dispatch of an event whose type has no bucket leaves the type in the
\* unhandled-event list exactly once, and a dispatch of the same type that
\* follows it at once does not change the set of unhandled types.
C3_RepeatedDispatch ==
    [][/\ (last'.op = "dispatch" /\ ~last'.found)
            => TimesUnhandled(cache', last'.event_type) = 1
       /\ (/\ chain.phase = "marked" /\ chain.via = "dispatch"
           /\ last'.op = "dispatch" /\ last'.event_type = chain.event_type)
            => /\ UnhandledTypes(cache') = UnhandledTypes(cache)
               /\ TimesUnhandled(cache', last'.event_type) = 1]_vars

\* C4: the stored unhandled-event list holds no event type twice, and after
\* clear_unhandled(t) the type t is not in it.
C4_NoDuplicates ==
    /\ \A t \in EventTypes : TimesUnhandled(cache, t) <= 1
    /\ last.op = "clear_unhandled" => last.event_type \notin UnhandledTypes(cache)

\* C5: an event type is marked unhandled, the next operation adds a
\* registration for it, the next dispatches an event of that type: the
\* dispatch finds the bucket and leaves the type out of the unhandled set.
C5_ClearedOnNextDispatch ==
    (last.op = "dispatch" /\ chain.phase = "dispatched")
        => /\ last.event_type = chain.event_type
           /\ last.found
           /\ chain.event_type \notin UnhandledTypes(cache)

C5_Witness ==
    /\ chain.phase = "dispatched"
    /\ chain.event_type = EVENT_REACTION_ADDED
    /\ last.op = "dispatch" /\ last.exc = ""
    /\ Len(last.trace.sent) = 1

\* C6: a dispatch of an event whose type has no bucket puts the type in the
\* unhandled-event set and makes no outbound call.
C6_UnhandledNoDelivery ==
    (last.op = "dispatch" /\ ~last.found)
        => /\ last.event_type \in UnhandledTypes(cache)
           /\ last.trace.sent = <<>>

C6_Witness ==
    /\ last.op = "dispatch" /\ ~last.found /\ last.exc = ""
    /\ last.event_type = EVENT_APP_MENTION
    /\ EVENT_REACTION_ADDED \in DOMAIN cache

\* the urls called by the last dispatch, in the order of the calls
UrlsCalled == [i \in 1..Len(last.trace.sent) |-> last.trace.sent[i].url]

\* the destinations of a bucket, in the order of the bucket
UrlsOf(bucket) == [i \in 1..Len(bucket) |-> bucket[i]["webhook_url"]]

\* C7 (dispatch): of a bucket of several registrations, none of which
\* filters the event out and none of whose calls raises, every destination
\* is called, in the order of the bucket, whatever status the calls return.
C7_AllCalledInOrder ==
    (/\ last.op = "dispatch" /\ last.found /\ last.exc = ""
     /\ last.trace.filtered = <<>>
     /\ Len(cache[last.event_type]) >= 2)
        => UrlsCalled = UrlsOf(cache[last.event_type])

\* C7: add_registration puts the registration after those the bucket holds,
\* and a dispatch calls the destinations as C7_AllCalledInOrder says.
C7_InsertionOrderDelivery ==
    [][/\ last'.op = "add_registration"
            => cache'[last'.event_type] =
                  Get(cache, last'.event_type, <<>>) \o <<last'.arg>>
       /\ C7_AllCalledInOrder']_vars

C7_Witness ==
    /\ last.op = "dispatch" /\ last.found /\ last.exc = ""
    /\ last.event_type = EVENT_REACTION_ADDED
    /\ UrlsOf(cache[EVENT_REACTION_ADDED]) = <<"https://hooks/1", "https://hooks/2">>
    /\ UrlsCalled = <<"https://hooks/1", "https://hooks/2">>
    /\ last.trace.sent[1].status_code >= 300
    /\ last.trace.errors = <<1>>

\* C8: when the call for one registration of an event type's bucket raises,
\* the dispatch still deals with every registration of the bucket (it calls
\* it or filters it out) and returns without an error.
C8_RaiseDoesNotAbort ==
    (/\ last.op = "dispatch" /\ last.found
     /\ last.event_type # DB_UNHANDLED_EVENTS_KEY
     /\ \A i \in 1..Len(cache[last.event_type]) : IsDict(cache[last.event_type][i])
     /\ \E i \in 1..Len(last.trace.sent) : last.trace.sent[i].raised)
        => /\ last.exc = ""
           /\ Len(last.trace.sent) + Len(last.trace.filtered)
                = Len(cache[last.event_type])

\* C9: the export of the store, imported into an empty store, gives a store
\* whose snapshot is that of the first, and the import returns the number of
\* its keys.
C9_ExportImportRoundTrip ==
    /\ db_import(EmptyDict, EmptyFile, db_export(cache)).cache = cache
    /\ StartupLoad(db_import(EmptyDict, EmptyFile, db_export(cache)).disk) = cache
    /\ db_import_count(db_export(cache)) = Cardinality(DOMAIN cache)

C9_Witness ==
    /\ Cardinality(DOMAIN cache) = 3
    /\ \A k \in DOMAIN cache : cache[k] # <<>>

\* C10: after add_registration(t, R), the store that a restart loads from
\* the file has a bucket for t, and R is in it.
C10_RegistrationSurvivesRestart ==
    last.op = "add_registration"
        => /\ ~db_get_event_config_raises(StartupLoad(disk), last.event_type)
           /\ last.arg \in Range(db_get_event_config(StartupLoad(disk), last.event_type))

C10_Witness ==
    /\ last.op = "add_registration"
    /\ last.event_type = EVENT_APP_MENTION
    /\ Len(StartupLoad(disk)[EVENT_APP_MENTION]) = 2

\* the file holds a snapshot: JSON, and a dict (of keys to lists)
WellFormedSnapshot(file) == file.kind = "json" /\ IsDict(file.doc)

\* C11: the process has started on a file that is empty or holds no
\* well-formed snapshot: the cache is the empty snapshot, and a store
\* operation called now does what it does on an empty store.
C11_MalformedStartsEmpty ==
    (last.op = "startup" /\ ~WellFormedSnapshot(disk))
        => /\ cache = EmptyDict
           /\ \A t \in EventTypes, w \in Webhooks :
                 db_add_webhook_to_event(cache, disk, t, w)
                    = db_add_webhook_to_event(EmptyDict, disk, t, w)

\* the items of the bucket that the last dispatch called
ItemsCalled == {last.trace.sent[i].item : i \in 1..Len(last.trace.sent)}

\* C12: a dispatch of a reaction-added event does not call a registration
\* that add_registration made with a filter_reaction other than the event's
\* reaction (colons stripped), and does not filter out one made with a
\* filter_reaction equal to it.
C12_FilterReactionApplied ==
    (last.op = "dispatch" /\ last.found /\ last.event_type = EVENT_REACTION_ADDED)
        => \A i \in 1..Len(cache[EVENT_REACTION_ADDED]) :
             LET registration == cache[EVENT_REACTION_ADDED][i]
             IN  "filter_reaction" \in DOMAIN registration
                   => IF StripColons(registration["filter_reaction"])
                           = last.arg["reaction"]
                      THEN i \notin Range(last.trace.filtered)
                      ELSE i \notin ItemsCalled

\* the webhook names a reaction (colons stripped) and the event's is another
ReactionMismatch(webhook_config, event) ==
    LET filter_react == StripColons(Get(webhook_config, "filter_react", <<>>))
    IN  filter_react # <<>> /\ filter_react # Get(event, "reaction", <<>>)

\* the webhook names a channel and the event's item is in another
ChannelMismatch(webhook_config, event) ==
    LET filter_channel == Get(webhook_config, "filter_channel", "")
    IN  /\ filter_channel # ""
        /\ filter_channel # Get(Get(event, "item", EmptyDict), "channel", None)

\* C13: for a reaction-added event should_filter_event gives one reason at
\* most; when the reaction mismatches the reason is the reaction's, whether
\* the channel mismatches or not; the reason is the channel's only when the
\* channel mismatches and the reaction filter is absent or matches.
C13_ReactionBeforeChannel ==
    (last.returned /\ last.event["type"] = EVENT_REACTION_ADDED)
        => /\ last.reason \in {None, "No emoji match", "No channel match"}
           /\ ReactionMismatch(last.webhook_config, last.event)
                => last.reason = "No emoji match"
           /\ last.reason = "No channel match"
                => /\ ~ReactionMismatch(last.webhook_config, last.event)
                   /\ ChannelMismatch(last.webhook_config, last.event)

C13_Witness ==
    /\ last.returned /\ last.event["type"] = EVENT_REACTION_ADDED
    /\ ReactionMismatch(last.webhook_config, last.event)
    /\ ChannelMismatch(last.webhook_config, last.event)
    /\ last.reason = "No emoji match"

\* the number of variables a workflow webhook takes
SLACK_WORKFLOW_BUILDER_WEBHOOK_VARIABLES_MAX == 20

\* C14: the payload of a reaction-added event that carries the fields user,
\* reaction, item_user, item.type, item.channel, item.ts and event_ts has
\* the 8 keys type, user, reaction, item_user, item_type, item_channel,
\* item_ts, event_ts and no other, each with the value of its field of the
\* event, none of them nested: a string each; the keys are 20 at most.
C14_FlattenReactionAdded ==
    (last.returned /\ last.event["type"] = "reaction_added")
        => /\ DOMAIN last.flat_payload
                = {"type", "user", "reaction", "item_user", "item_type",
                   "item_channel", "item_ts", "event_ts"}
           /\ last.flat_payload["type"] = last.event["type"]
           /\ last.flat_payload["user"] = last.event["user"]
           /\ last.flat_payload["reaction"] = last.event["reaction"]
           /\ last.flat_payload["item_user"] = last.event["item_user"]
           /\ last.flat_payload["item_type"] = last.event["item"]["type"]
           /\ last.flat_payload["item_channel"] = last.event["item"]["channel"]
           /\ last.flat_payload["item_ts"] = last.event["item"]["ts"]
           /\ last.flat_payload["event_ts"] = last.event["event_ts"]
           /\ \A k \in DOMAIN last.flat_payload \ {"type", "reaction"} :
                 last.flat_payload[k] \in FieldStrings
           /\ last.flat_payload["reaction"] \in {thumbsup, grin}
           /\ Cardinality(DOMAIN last.flat_payload)
                <= SLACK_WORKFLOW_BUILDER_WEBHOOK_VARIABLES_MAX

C14_Witness ==
    /\ last.returned /\ last.event["type"] = "reaction_added"
    /\ "team" \in DOMAIN last.event
    /\ last.event["item"]["channel"] = "C2"
    /\ last.flat_payload["item_channel"] = "C2"
    /\ Cardinality(DOMAIN last.flat_payload) = 8

\* C15: import_snapshot(data) gives every key of data the value data has for
\* it, leaves every other key of the store with its value, adds no other
\* key, and returns the number of keys of data.
C15_ImportMerges ==
    [][last'.op = "import_snapshot"
         => /\ DOMAIN cache' = DOMAIN cache \cup DOMAIN last'.arg
            /\ \A k \in DOMAIN last'.arg : cache'[k] = last'.arg[k]
            /\ \A k \in DOMAIN cache \ DOMAIN last'.arg : cache'[k] = cache[k]
            /\ last'.count = Cardinality(DOMAIN last'.arg)]_vars

C15_Witness ==
    /\ last.op = "import_snapshot" /\ last.count = 1
    /\ DOMAIN last.arg = {EVENT_REACTION_ADDED}
    /\ cache[EVENT_REACTION_ADDED] = last.arg[EVENT_REACTION_ADDED]
    /\ EVENT_APP_MENTION \in DOMAIN cache
    /\ EVENT_REACTION_ADDED \in UnhandledTypes(cache)

C17_ReservedKeyNotABucket ==
    \A i \in 1..Len(db_get_unhandled_events(cache)) :
        IsStr(db_get_unhandled_events(cache)[i])

\* both threads have returned from their operations
BothCompleted == threads # NoThreads /\ \A i \in 1..2 : threads[i].pc = "done"

\* C18: two operations of two threads, their steps interleaved, have both
\* completed: the cache equals the contents of the file, and no update is
\* lost: a type marked is in the unhandled list and a type cleared is not,
\* unless the other operation was the opposite one on the same type.
C18_ConcurrentConsistent ==
    BothCompleted
        => /\ cache = StartupLoad(disk)
           /\ \A i \in 1..2 :
                 (\/ threads[3 - i].event_type # threads[i].event_type
                  \/ threads[3 - i].op = threads[i].op)
                    => (threads[i].op = "mark_unhandled"
                          <=> threads[i].event_type \in UnhandledTypes(cache))

\* how many calls the last dispatch made for item i of the bucket
TimesCalled(i) ==
    Cardinality({j \in 1..Len(last.trace.sent) : last.trace.sent[j].item = i})

\* C19: a dispatch of an event whose type has a bucket (of registrations)
\* makes one call, and one only, for every registration that
\* should_filter_event gives no reason for, and none for the others.
C19_OneCallPerRegistration ==
    (/\ last.op = "dispatch" /\ last.found
     /\ last.event_type # DB_UNHANDLED_EVENTS_KEY
     /\ \A i \in 1..Len(cache[last.event_type]) : IsDict(cache[last.event_type][i]))
        => \A i \in 1..Len(cache[last.event_type]) :
             TimesCalled(i) =
                IF should_filter_event(cache[last.event_type][i], last.arg) = None
                THEN 1 ELSE 0

\* the keys of the event-type buckets: every key but the reserved one, whose
\* value is the unhandled-event list
BucketKeys(c) == DOMAIN c \ {DB_UNHANDLED_EVENTS_KEY}

\* the registrations of a list, in its order
RegistrationsOf(list) == SelectSeq(list, IsDict)

\* C20: a dispatch leaves the keys of the buckets and the registrations of
\* every bucket as they were; the unhandled-event list is all it may change,
\* and of that list the event types only: registrations that are under the
\* reserved key stay as they were too.
C20_DispatchKeepsBuckets ==
    [][last'.op = "dispatch"
         => /\ BucketKeys(cache') = BucketKeys(cache)
            /\ \A k \in BucketKeys(cache) : cache'[k] = cache[k]
            /\ RegistrationsOf(db_get_unhandled_events(cache'))
                  = RegistrationsOf(db_get_unhandled_events(cache))]_vars

C20_Witness ==
    /\ last.op = "dispatch" /\ ~last.found /\ last.exc = ""
    /\ last.event_type = EVENT_REACTION_ADDED
    /\ EVENT_APP_MENTION \in DOMAIN cache
    /\ Len(cache[EVENT_APP_MENTION]) = 2
    /\ UnhandledTypes(cache) = {EVENT_REACTION_ADDED, EVENT_APP_MENTION}

\* C21: is_valid_slack_channel_name gives true for the names of 80
\* characters at most that are made of lowercase letters, digits, hyphens
\* and underscores only, and false for every other name (a longer one, one
\* with a whitespace or an uppercase letter).  The empty name is left out.
C21_ChannelNameValid ==
    (last.returned /\ last.channel_name # <<>>)
        => (last.result
              <=> /\ Len(last.channel_name) <= 80
                  /\ \A i \in 1..Len(last.channel_name) :
                        last.channel_name[i]
                           \in LowercaseLetters \cup Digits \cup {"-", "_"})

\* C22: the loop of sample_list_until_no_bots_are_found makes 15 passes
\* (max_num_allowed_iterations) at most, whatever the members are, also
\* when fewer of them are people than number_of_users.
C22_AtMostFifteenPasses ==
    last.iterations <= max_num_allowed_iterations

====
